---- MODULE Spec2Model ----
(***************************************************************************)
(* A model of kenchi's outlier detectors (outlier_detection/base.py,       *)
(* outlier_detection/empirical_distns.py) and of its ExtendedPipeline      *)
(* (pipeline.py).                                                          *)
(*                                                                         *)
(* Samples are one-feature rows with integer coordinates, so that every    *)
(* Minkowski distance is |a - b|.  A float is a record: a finite value in  *)
(* fixed point, minus infinity, or NaN.  Finite anomaly scores are kept in *)
(* units of 1 / ScoreUnit, a multiple of the contamination denominator, so *)
(* that the linear interpolation of np.percentile is exact.                *)
(***************************************************************************)
EXTENDS Integers, Sequences, FiniteSets, TLC

\* Bounds of the model.
MaxN == 3
MaxCoord == 2
MaxK == 3
Den == 2
MaxFits == 2
MaxSteps == 2
MaxRows == 2

\* The coordinates a sample takes: 0, 1, 3, 7, ..., so that few points give
\* many different distances.
Coords == {2^i - 1 : i \in 0..MaxCoord}
MaxDist == 2^MaxCoord - 1
\* A non-finite entry of an input matrix: below every value a transform of
\* finite coordinates gives.
Bad == 0 - 2^(MaxCoord + 1)

Max2(a, b) == IF a >= b THEN a ELSE b
Min2(a, b) == IF a <= b THEN a ELSE b
Abs(a) == IF a >= 0 THEN a ELSE 0 - a

(***************************************************************************)
(* Floats.                                                                 *)
(***************************************************************************)
Fin(n) == [k |-> "fin", v |-> n]
NegInf == [k |-> "ninf", v |-> 0]
NaN == [k |-> "nan", v |-> 0]
\* An attribute that has not been assigned (or an argument left at None).
Unset == [k |-> "unset", v |-> 0]

IsFinite(a) == a.k = "fin"

\* a <= b on floats: every comparison with NaN is false.
FLe(a, b) ==
    CASE a.k = "nan" \/ b.k = "nan" -> FALSE
      [] a.k = "ninf" -> TRUE
      [] b.k = "ninf" -> FALSE
      [] OTHER -> a.v <= b.v

\* a > b on floats.
FGt(a, b) ==
    CASE a.k = "nan" \/ b.k = "nan" -> FALSE
      [] a.k = "ninf" -> FALSE
      [] b.k = "ninf" -> TRUE
      [] OTHER -> a.v > b.v

FLt(a, b) == FGt(b, a)

\* a * (w / Den) for a weight 0 <= w <= Den: -inf * 0 is NaN.
FScale(a, w) ==
    CASE a.k = "nan" -> NaN
      [] a.k = "ninf" -> IF w = 0 THEN NaN ELSE NegInf
      [] OTHER -> Fin((a.v * w) \div Den)

FAdd(a, b) ==
    CASE a.k = "nan" \/ b.k = "nan" -> NaN
      [] a.k = "ninf" \/ b.k = "ninf" -> NegInf
      [] OTHER -> Fin(a.v + b.v)

\* 100 * ln(n), rounded.
LnCenti(n) ==
    CASE n = 1 -> 0
      [] n = 2 -> 69
      [] n = 3 -> 110
      [] n = 4 -> 139
      [] n = 5 -> 161
      [] n = 6 -> 179
      [] n = 7 -> 195
      [] n = 8 -> 208
      [] n = 9 -> 220
      [] n = 10 -> 230
      [] n = 11 -> 240
      [] n = 12 -> 248
      [] n = 13 -> 256
      [] n = 14 -> 264
      [] OTHER -> 271

\* The fixed-point value of 1.0.
ScoreUnit == 100 * Den

\* np.log: log(0) is -inf.
Log(r) == IF r = 0 THEN NegInf ELSE Fin(Den * LnCenti(r))

(***************************************************************************)
(* Input matrices.                                                         *)
(***************************************************************************)
Matrices(n) ==
    {<<>>, <<Bad>>} \cup UNION {[1..m -> Coords] : m \in 1..n}

\* Training matrices are drawn with their rows in nondecreasing order and
\* their first row at the origin: the index, the percentile and the scaler
\* do not depend on the order of the rows, and distances do not depend on where
\* the origin is.  Queries take every coordinate.
TrainInputs ==
    {X \in Matrices(MaxN) :
        /\ \A i \in 1..(Len(X) - 1) : X[i] <= X[i + 1]
        /\ Len(X) >= 1 => X[1] \in {0, Bad}}
\* Queries are single rows: every row of a query is scored on its own.
QueryInputs == Matrices(1)

\* sklearn's check_array: at least one sample, every entry finite.
CheckArray(X) == Len(X) >= 1 /\ \A i \in 1..Len(X) : X[i] # Bad

NFeatures(X) == 1

(***************************************************************************)
(* The nearest-neighbor index.                                             *)
(***************************************************************************)
NoNeigh == [set |-> FALSE, fitX |-> <<>>, k |-> 0]

\* NearestNeighbors(n_neighbors = k).fit(X)
NeighFit(X, k) == [set |-> TRUE, fitX |-> X, k |-> k]

\* kneighbors raises when it is asked for more neighbors than it holds.
KNeighborsRaises(neigh) == neigh.k > Len(neigh.fitX)

Dist(a, b) == Abs(a - b)

\* np.max(dist, axis=1): the distance to the k-th nearest reference point.
Radius(neigh, x) ==
    LET Within(d) == Cardinality({i \in 1..Len(neigh.fitX) :
                                    Dist(x, neigh.fitX[i]) <= d})
    IN CHOOSE d \in 0..MaxDist :
          /\ Within(d) >= neigh.k
          /\ \A e \in 0..MaxDist : e < d => Within(e) < neigh.k

\* -np.log(n_neighbors) + n_features * np.log(radius)
ScoreOf(k, nf, radius) ==
    LET lr == Log(radius)
    IN IF lr.k = "ninf" THEN NegInf
       ELSE Fin(nf * lr.v - Den * LnCenti(k))

RECURSIVE ScoreRows(_, _, _)
ScoreRows(neigh, X, n) ==
    IF n = 0 THEN <<>>
    ELSE Append(ScoreRows(neigh, X, n - 1),
                ScoreOf(neigh.k, NFeatures(X), Radius(neigh, X[n])))

\* EmpiricalOutlierDetector.anomaly_score, after its checks: one score a row.
KnnScores(neigh, X) == ScoreRows(neigh, X, Len(X))

(***************************************************************************)
(* np.percentile(scores, 100 * (1 - c)), c = cnum / Den.                   *)
(***************************************************************************)
\* "Percentiles must be in the range [0, 100]"
PercentileRaises(cnum) == cnum < 0 \/ cnum > Den

\* The j-th smallest element (j from 0) of a sequence free of NaN.
OrderStat(s, j) ==
    LET below(v) == Cardinality({i \in 1..Len(s) : FLt(s[i], v)})
        upto(v) == Cardinality({i \in 1..Len(s) : FLe(s[i], v)})
    IN CHOOSE v \in {s[i] : i \in 1..Len(s)} : below(v) <= j /\ j < upto(v)

\* The percentile taken at 100 * c instead of 100 * (1 - c).
PercentileOfContamination(s, cnum) ==
    LET n == Len(s)
        pos == (n - 1) * cnum
        lo == pos \div Den
        wa == pos % Den
        hi == Min2(lo + 1, n - 1)
    IN FAdd(FScale(OrderStat(s, lo), Den - wa), FScale(OrderStat(s, hi), wa))

Percentile(s, cnum) ==
    LET n == Len(s)
        pos == (n - 1) * (Den - cnum)
        lo == pos \div Den
        wa == pos % Den
        hi == Min2(lo + 1, n - 1)
    IN FAdd(FScale(OrderStat(s, lo), Den - wa), FScale(OrderStat(s, hi), wa))

(***************************************************************************)
(* The scores and the threshold of a training matrix against its own       *)
(* index do not depend on the detector's earlier state: they are computed  *)
(* once for every matrix, and looked up by fit.                            *)
(***************************************************************************)
SelfScoresTable ==
    [p \in (1..MaxK) \X {X \in TrainInputs : CheckArray(X)} |->
        IF p[1] > Len(p[2]) THEN <<>>
        ELSE KnnScores(NeighFit(p[2], p[1]), p[2])] @@ <<>>

\* self.anomaly_score(X) / self._anomaly_score(X) inside fit.
SelfScores(neigh, X) ==
    IF neigh.fitX = X THEN SelfScoresTable[<<neigh.k, X>>]
    ELSE KnnScores(neigh, X)

SelfThresholdTable ==
    [p \in (1..MaxK) \X {X \in TrainInputs : CheckArray(X)} \X (0..Den) |->
        IF p[1] > Len(p[2]) THEN NaN
        ELSE Percentile(SelfScoresTable[<<p[1], p[2]>>], p[3])] @@ <<>>

\* np.percentile(scores, 100. * (1. - contamination)) inside fit.
SelfThreshold(neigh, X, cnum) ==
    IF neigh.fitX = X THEN SelfThresholdTable[<<neigh.k, X, cnum>>]
    ELSE Percentile(KnnScores(neigh, X), cnum)

(***************************************************************************)
(* MinMaxScaler.                                                           *)
(***************************************************************************)
NoScaler == [set |-> FALSE, min |-> 0, max |-> 0]

AllFinite(s) == \A i \in 1..Len(s) : IsFinite(s[i])

SeqMin(s) == CHOOSE v \in {s[i].v : i \in 1..Len(s)} :
                \A i \in 1..Len(s) : v <= s[i].v
SeqMax(s) == CHOOSE v \in {s[i].v : i \in 1..Len(s)} :
                \A i \in 1..Len(s) : v >= s[i].v

\* partial_fit: the range widens over what an earlier fit saw.
ScalerPartialFit(old, s) ==
    IF old.set
    THEN [set |-> TRUE, min |-> Min2(old.min, SeqMin(s)),
          max |-> Max2(old.max, SeqMax(s))]
    ELSE [set |-> TRUE, min |-> SeqMin(s), max |-> SeqMax(s)]

\* MinMaxScaler().fit(scores), on finite scores: a new scaler, whatever the
\* old one held.
ScalerFit(old, s) == [set |-> TRUE, min |-> SeqMin(s), max |-> SeqMax(s)]

\* scaler.transform: (s - min) / (max - min), a zero range scaled by 1.
ScalerTransform(sc, s) ==
    [i \in 1..Len(s) |->
        [num |-> s[i].v - sc.min,
         den |-> IF sc.max = sc.min THEN ScoreUnit ELSE sc.max - sc.min]]

(***************************************************************************)
(* Detectors.                                                              *)
(***************************************************************************)
Classes == {"BaseOutlierDetector", "EmpiricalOutlierDetector"}

\* contamination (fpr) = cnum / Den
CNums == (0 - 1)..((Den \div 2) + 1)

NoScores == [set |-> FALSE, v |-> <<>>]

\* __init__: the parameters are stored, nothing is fitted.
NewDetector(cls, cnum, k) ==
    [cls |-> cls, contamination |-> cnum, n_neighbors |-> k,
     neigh |-> NoNeigh, anomaly_score_ |-> NoScores,
     threshold_ |-> Unset, scaler |-> NoScaler]

\* The fitted state of a detector.
Fitted(d) == <<d.neigh, d.anomaly_score_, d.threshold_, d.scaler>>

\* _check_params: 0 <= contamination <= 0.5
CheckParams(d) == 0 <= d.contamination /\ 2 * d.contamination <= Den

Outcome(d, out, val) == [det |-> d, outcome |-> out, value |-> val]

NoValue == [scores |-> <<>>, norm |-> <<>>, labels |-> <<>>]
ScoresValue(s) == [scores |-> s, norm |-> <<>>, labels |-> <<>>]
NormValue(s) == [scores |-> <<>>, norm |-> s, labels |-> <<>>]
LabelsValue(s) == [scores |-> <<>>, norm |-> <<>>, labels |-> s]

\* The one element of a singleton set: binds a value that is computed once.
The(S) == CHOOSE x \in S : TRUE

\* BaseOutlierDetector.fit, with the k-nearest-neighbor _fit / _anomaly_score.
BaseFit(d, X) ==
    IF ~CheckParams(d) THEN Outcome(d, "InvalidParameter", NoValue)
    ELSE IF ~CheckArray(X) THEN Outcome(d, "InvalidInput", NoValue)
    ELSE
      LET d1 == [d EXCEPT !.neigh = NeighFit(X, d.n_neighbors)]
      IN IF KNeighborsRaises(d1.neigh) THEN Outcome(d1, "ValueError", NoValue)
         ELSE The({
           LET d2 == [d1 EXCEPT !.anomaly_score_ = [set |-> TRUE, v |-> s],
                                !.threshold_ =
                                   SelfThreshold(d1.neigh, X, d.contamination)]
           IN IF ~AllFinite(s) THEN Outcome(d2, "ValueError", NoValue)
              ELSE Outcome([d2 EXCEPT !.scaler = ScalerFit(d.scaler, s)],
                           "ok", NoValue)
           : s \in {SelfScores(d1.neigh, X)}})

\* EmpiricalOutlierDetector.fit
EmpiricalFit(d, X) ==
    IF ~CheckArray(X) THEN Outcome(d, "InvalidInput", NoValue)
    ELSE
      LET d1 == [d EXCEPT !.neigh = NeighFit(X, d.n_neighbors)]
      IN IF KNeighborsRaises(d1.neigh) THEN Outcome(d1, "ValueError", NoValue)
         ELSE IF PercentileRaises(d.contamination)
              THEN Outcome(d1, "ValueError", NoValue)
         ELSE Outcome([d1 EXCEPT !.threshold_ =
                          SelfThreshold(d1.neigh, X, d.contamination)],
                      "ok", NoValue)

DetFit(d, X) ==
    IF d.cls = "BaseOutlierDetector" THEN BaseFit(d, X) ELSE EmpiricalFit(d, X)

\* anomaly_score keeping the scores it computed in anomaly_score_.
BaseAnomalyScoreStoring(d, X, normalize) ==
    IF ~d.scaler.set THEN Outcome(d, "NotFittedError", NoValue)
    ELSE IF ~CheckArray(X) THEN Outcome(d, "InvalidInput", NoValue)
    ELSE IF KNeighborsRaises(d.neigh) THEN Outcome(d, "ValueError", NoValue)
    ELSE
      LET s == KnnScores(d.neigh, X)
          d1 == [d EXCEPT !.anomaly_score_ = [set |-> TRUE, v |-> s]]
      IN IF ~normalize THEN Outcome(d1, "ok", ScoresValue(s))
         ELSE IF ~AllFinite(s) THEN Outcome(d, "ValueError", NoValue)
         ELSE Outcome(d1, "ok", NormValue(ScalerTransform(d.scaler, s)))

\* BaseOutlierDetector.anomaly_score
BaseAnomalyScore(d, X, normalize) ==
    IF ~d.scaler.set THEN Outcome(d, "NotFittedError", NoValue)
    ELSE IF ~CheckArray(X) THEN Outcome(d, "InvalidInput", NoValue)
    ELSE IF KNeighborsRaises(d.neigh) THEN Outcome(d, "ValueError", NoValue)
    ELSE
      LET s == KnnScores(d.neigh, X)
      IN IF ~normalize THEN Outcome(d, "ok", ScoresValue(s))
         ELSE IF ~AllFinite(s) THEN Outcome(d, "ValueError", NoValue)
         ELSE Outcome(d, "ok", NormValue(ScalerTransform(d.scaler, s)))

\* EmpiricalOutlierDetector.anomaly_score
EmpiricalAnomalyScore(d, X) ==
    IF ~d.neigh.set THEN Outcome(d, "NotFittedError", NoValue)
    ELSE IF ~CheckArray(X) THEN Outcome(d, "InvalidInput", NoValue)
    ELSE IF KNeighborsRaises(d.neigh) THEN Outcome(d, "ValueError", NoValue)
    ELSE Outcome(d, "ok", ScoresValue(KnnScores(d.neigh, X)))

DetAnomalyScore(d, X, normalize) ==
    IF d.cls = "BaseOutlierDetector" THEN BaseAnomalyScore(d, X, normalize)
    ELSE EmpiricalAnomalyScore(d, X)

\* np.where(anomaly_score <= threshold, 1, -1)
Labels(s, thr) == [i \in 1..Len(s) |-> IF FLe(s[i], thr) THEN 1 ELSE 0 - 1]

\* BaseOutlierDetector.predict
BasePredict(d, X, threshold) ==
    The({LET thr == IF threshold = Unset THEN r.det.threshold_ ELSE threshold
         IN IF r.outcome # "ok" THEN r
            ELSE Outcome(r.det, "ok", LabelsValue(Labels(r.value.scores, thr)))
         : r \in {BaseAnomalyScore(d, X, FALSE)}})

\* OutlierMixin.fit_predict: self.fit(X).predict(X)
BaseFitPredict(d, X) ==
    The({IF r.outcome # "ok" THEN r ELSE BasePredict(r.det, X, Unset)
         : r \in {BaseFit(d, X)}})

(***************************************************************************)
(* ExtendedPipeline: a list of (name, transform) steps whose last step is  *)
(* the final estimator.  The final estimator is kept symbolic: the methods *)
(* it has, whether it is fitted and the matrix it was fitted on; what one  *)
(* of its methods returns is the method, the fitted model and the matrix   *)
(* given to it.                                                            *)
(***************************************************************************)
PipelineOps ==
    {"fit", "predict", "fit_predict", "anomaly_score", "detect", "fit_detect",
     "feature_wise_anomaly_score", "analyze", "fit_analyze",
     "plot_anomaly_score"}

FitPipeOps == {"fit", "fit_predict", "fit_detect", "fit_analyze"}

\* The methods of a BaseOutlierDetector that the pipeline forwards to.
BaseDetectorCaps ==
    {"fit", "predict", "fit_predict", "anomaly_score", "plot_anomaly_score"}
\* A final step with fit and anomaly_score alone.
ScorerCaps == {"fit", "anomaly_score"}
\* A final step with every method the pipeline forwards to.
AnalyzerCaps == PipelineOps

FinalCaps == {BaseDetectorCaps, ScorerCaps, AnalyzerCaps}

\* The transforms of a step: None, a FunctionTransformer without a function,
\* a Binarizer (both hold no fitted state), and a transform that learns the
\* minimum of its training column and subtracts it.
TransformKinds == {"None", "Identity", "Binarizer", "Shift"}

NewStep(i, kind) ==
    [name |-> "step" \o ToString(i), kind |-> kind, orig |-> TRUE,
     fitted |-> FALSE, offset |-> 0, caps |-> {}, model |-> <<>>]

NewFinal(i, caps) ==
    [name |-> "step" \o ToString(i), kind |-> "Detector", orig |-> TRUE,
     fitted |-> FALSE, offset |-> 0, caps |-> caps, model |-> <<>>]

\* ExtendedPipeline(steps, memory)
NewPipeline(kinds, caps, memory) ==
    [steps |-> [i \in 1..(Len(kinds) + 1) |->
                   IF i <= Len(kinds) THEN NewStep(i, kinds[i])
                   ELSE NewFinal(i, caps)],
     memory |-> memory]

\* The steps before the final one, last first.
ChainStepsReversed(steps) ==
    [i \in 1..(Len(steps) - 1) |-> steps[Len(steps) - i]]
\* self.steps[:-1]
ChainSteps(steps) == SubSeq(steps, 1, Len(steps) - 1)

\* self._final_estimator
FinalEstimator(steps) == steps[Len(steps)]

\* A pipeline that offers every method, whatever its final step has.
HasMethodAlways(final, op) == TRUE
\* if_delegate_has_method(delegate='_final_estimator')
HasMethod(final, op) == op \in final.caps

ColMin(X) == CHOOSE v \in {X[i] : i \in 1..Len(X)} :
                \A i \in 1..Len(X) : v <= X[i]

\* What a transform makes of valid rows.
TransformRows(step, X) ==
    [i \in 1..Len(X) |->
        CASE step.kind = "Shift" -> X[i] - step.offset
          [] step.kind = "Binarizer" -> IF X[i] > 0 THEN 1 ELSE 0
          [] OTHER -> X[i]]

\* transform.transform(Xt)
TransformOne(step, X) ==
    IF step.kind = "Shift" /\ ~step.fitted
    THEN [outcome |-> "NotFittedError", X |-> X]
    ELSE IF ~CheckArray(X) THEN [outcome |-> "InvalidInput", X |-> X]
    ELSE [outcome |-> "ok", X |-> TransformRows(step, X)]

\* transform.fit(X), on valid rows.
FitStep(step, X) ==
    IF step.kind = "Shift"
    THEN [step EXCEPT !.fitted = TRUE, !.offset = ColMin(X)]
    ELSE step

\* clone(transformer): a new, unfitted object with the same parameters.
Clone(step) == [step EXCEPT !.orig = FALSE, !.fitted = FALSE, !.offset = 0]

\* A pipeline that clones, caching or not.
ClonedTransformerAlways(step, memory) == Clone(step)
\* The object that is fitted: a clone when the pipeline caches.
ClonedTransformer(step, memory) == IF memory THEN Clone(step) ELSE step

\* One turn of the fitting loop: fit_transform of the (cloned) transformer.
FitTransformOne(step, X, memory) ==
    IF ~CheckArray(X) THEN [outcome |-> "InvalidInput", step |-> step, X |-> X]
    ELSE LET f == FitStep(ClonedTransformer(step, memory), X)
         IN [outcome |-> "ok", step |-> f, X |-> TransformRows(f, X)]

\* The loop of the scoring methods over the first n of the given steps:
\*     for _, transform in self.steps[:-1]:
\*         if transform is not None: Xt = transform.transform(Xt)
RECURSIVE TransformLoop(_, _, _)
TransformLoop(chain, X, n) ==
    IF n = 0 THEN [outcome |-> "ok", X |-> X, applied |-> 0]
    ELSE LET r == TransformLoop(chain, X, n - 1)
         IN IF r.outcome # "ok" \/ chain[n].kind = "None" THEN r
            ELSE LET t == TransformOne(chain[n], r.X)
                 IN [outcome |-> t.outcome, X |-> t.X,
                     applied |-> r.applied + 1]

\* Pipeline._fit over the first n steps: every transform that is not None is
\* fitted on, and then applied to, the output of the steps before it, and
\* the fitted transformer is stored in its step.
RECURSIVE PipelineFitLoop(_, _, _, _)
PipelineFitLoop(steps, memory, X, n) ==
    IF n = 0 THEN [outcome |-> "ok", steps |-> steps, X |-> X, applied |-> 0]
    ELSE LET r == PipelineFitLoop(steps, memory, X, n - 1)
         IN IF r.outcome # "ok" \/ r.steps[n].kind = "None" THEN r
            ELSE LET f == FitTransformOne(r.steps[n], r.X, memory)
                 IN [outcome |-> f.outcome,
                     steps |-> [r.steps EXCEPT ![n] = f.step],
                     X |-> f.X, applied |-> r.applied + 1]

NoResult == [op |-> "none", model |-> <<>>, arg |-> <<>>]

\* self._final_estimator.<op>(Xt), for a method that scores
FinalCall(final, op, Xt) ==
    IF op \notin final.caps
    THEN [outcome |-> "AttributeError", value |-> NoResult, final |-> final]
    ELSE IF ~final.fitted
    THEN [outcome |-> "NotFittedError", value |-> NoResult, final |-> final]
    ELSE IF ~CheckArray(Xt)
    THEN [outcome |-> "InvalidInput", value |-> NoResult, final |-> final]
    ELSE [outcome |-> "ok", final |-> final,
          value |-> [op |-> op, model |-> final.model, arg |-> Xt]]

\* self._final_estimator.<op>(Xt), for fit and the methods that fit first
FinalFitCall(final, op, Xt) ==
    IF op \notin final.caps
    THEN [outcome |-> "AttributeError", value |-> NoResult, final |-> final]
    ELSE IF ~CheckArray(Xt)
    THEN [outcome |-> "InvalidInput", value |-> NoResult, final |-> final]
    ELSE [outcome |-> "ok",
          final |-> [final EXCEPT !.fitted = TRUE, !.model = Xt],
          value |-> IF op = "fit" THEN NoResult
                    ELSE [op |-> op, model |-> Xt, arg |-> Xt]]

PipeOutcome(p, out, val, applied) ==
    [pipe |-> p, outcome |-> out, value |-> val, applied |-> applied]

\* predict, anomaly_score, detect, feature_wise_anomaly_score, analyze and
\* plot_anomaly_score of the pipeline.
PipelineScore(p, op, X) ==
    LET final == FinalEstimator(p.steps)
    IN IF ~HasMethod(final, op)
       THEN PipeOutcome(p, "AttributeError", NoResult, 0)
       ELSE LET chain == ChainSteps(p.steps)
                t == TransformLoop(chain, X, Len(chain))
                f == FinalCall(final, op, t.X)
            IN IF t.outcome # "ok"
               THEN PipeOutcome(p, t.outcome, NoResult, t.applied)
               ELSE PipeOutcome(p, f.outcome, f.value, t.applied)

\* fit, fit_predict, fit_detect and fit_analyze of the pipeline.
PipelineFit(p, op, X) ==
    LET n == Len(p.steps)
        final == FinalEstimator(p.steps)
    IN IF ~HasMethod(final, op)
       THEN PipeOutcome(p, "AttributeError", NoResult, 0)
       ELSE LET t == PipelineFitLoop(p.steps, p.memory, X, n - 1)
                f == FinalFitCall(final, op, t.X)
            IN IF t.outcome # "ok"
               THEN PipeOutcome([p EXCEPT !.steps = t.steps], t.outcome,
                                NoResult, t.applied)
               ELSE PipeOutcome([p EXCEPT !.steps = [t.steps EXCEPT ![n] = f.final]],
                                f.outcome, f.value, t.applied)

(***************************************************************************)
(* The state machines: one call per step, on a detector (Spec) or on a     *)
(* pipeline (SpecPipe).                                                    *)
(***************************************************************************)
VARIABLES
    det,     \* the detector object: its parameters and its fitted attributes
    last,    \* the last call made on the detector, and what it returned
    nfit,    \* history: the fit calls that have returned so far, up to MaxFits
    pipe,    \* the pipeline object: its steps and its memory parameter
    plast    \* the last call made on the pipeline, and what it returned

vars == <<det, last, nfit, pipe, plast>>
detVars == <<det, last, nfit>>
pipeVars == <<pipe, plast>>

NoCall == [op |-> "none", X |-> <<>>, normalize |-> FALSE, threshold |-> Unset,
           outcome |-> "ok", value |-> NoValue]

Call(op, X, normalize, threshold, r) ==
    [op |-> op, X |-> X, normalize |-> normalize, threshold |-> threshold,
     outcome |-> r.outcome, value |-> r.value]

NoPipeCall == [op |-> "none", X |-> <<>>, outcome |-> "ok", value |-> NoResult,
               applied |-> 0]

PipeCall(op, X, r) ==
    [op |-> op, X |-> X, outcome |-> r.outcome, value |-> r.value,
     applied |-> r.applied]

\* The thresholds a caller passes: None, or a score the detector can give.
Thresholds(d) ==
    {Unset} \cup {ScoreOf(d.n_neighbors, 1, r) : r \in 1..MaxCoord}

\* The matrices given to a pipeline: rows in increasing order.
PipeInputs ==
    {X \in Matrices(MaxRows) : \A i \in 1..(Len(X) - 1) : X[i] < X[i + 1]}

Pipelines ==
    {NewPipeline(kinds, caps, memory) :
        kinds \in UNION {[1..m -> TransformKinds] : m \in 0..MaxSteps},
        caps \in FinalCaps, memory \in BOOLEAN}

Init ==
    /\ det \in {NewDetector(c, n, k) : c \in Classes, n \in CNums, k \in 1..MaxK}
    /\ last = NoCall
    /\ nfit = 0
    /\ pipe = NewPipeline(<<>>, ScorerCaps, FALSE)
    /\ plast = NoPipeCall

FitOps == {"fit", "fit_predict"}
ScoringOps == {"anomaly_score", "predict"}

\* History: the successful fits are counted.
CountFits ==
    nfit' = IF last'.op \in FitOps /\ last'.outcome = "ok"
            THEN Min2(nfit + 1, MaxFits) ELSE nfit

Fit ==
    \E X \in TrainInputs :
      \E r \in {DetFit(det, X)} :
         /\ det' = r.det
         /\ last' = Call("fit", X, FALSE, Unset, r)
         /\ CountFits
         /\ UNCHANGED pipeVars

AnomalyScore ==
    \E X \in QueryInputs, normalize \in BOOLEAN :
      /\ det.cls = "BaseOutlierDetector" \/ ~normalize
      /\ \E r \in {DetAnomalyScore(det, X, normalize)} :
         /\ det' = r.det
         /\ last' = Call("anomaly_score", X, normalize, Unset, r)
         /\ CountFits
         /\ UNCHANGED pipeVars

Predict ==
    \E X \in QueryInputs, threshold \in Thresholds(det) :
      /\ det.cls = "BaseOutlierDetector"
      /\ \E r \in {BasePredict(det, X, threshold)} :
         /\ det' = r.det
         /\ last' = Call("predict", X, FALSE, threshold, r)
         /\ CountFits
         /\ UNCHANGED pipeVars

FitPredict ==
    \E X \in TrainInputs :
      /\ det.cls = "BaseOutlierDetector"
      /\ \E r \in {BaseFitPredict(det, X)} :
         /\ det' = r.det
         /\ last' = Call("fit_predict", X, FALSE, Unset, r)
         /\ CountFits
         /\ UNCHANGED pipeVars

Next == Fit \/ AnomalyScore \/ Predict \/ FitPredict

Spec == Init /\ [][Next]_vars

InitPipe ==
    /\ det = NewDetector("BaseOutlierDetector", 0, 1)
    /\ last = NoCall
    /\ nfit = 0
    /\ pipe \in Pipelines
    /\ plast = NoPipeCall

\* A call of a fitting method of the pipeline.
PipeFitCall(op) ==
    \E X \in PipeInputs :
      \E r \in {PipelineFit(pipe, op, X)} :
         /\ pipe' = r.pipe
         /\ plast' = PipeCall(op, X, r)
         /\ UNCHANGED detVars

\* A call of a scoring method of the pipeline.
PipeScoreCall(op) ==
    \E X \in PipeInputs :
      \E r \in {PipelineScore(pipe, op, X)} :
         /\ pipe' = r.pipe
         /\ plast' = PipeCall(op, X, r)
         /\ UNCHANGED detVars

PipeFit == PipeFitCall("fit")
PipePredict == PipeScoreCall("predict")
PipeFitPredict == PipeFitCall("fit_predict")
PipeAnomalyScore == PipeScoreCall("anomaly_score")
PipeDetect == PipeScoreCall("detect")
PipeFitDetect == PipeFitCall("fit_detect")
PipeFeatureWiseAnomalyScore == PipeScoreCall("feature_wise_anomaly_score")
PipeAnalyze == PipeScoreCall("analyze")
PipeFitAnalyze == PipeFitCall("fit_analyze")
PipePlotAnomalyScore == PipeScoreCall("plot_anomaly_score")

NextPipe ==
    \/ PipeFit
    \/ PipePredict
    \/ PipeFitPredict
    \/ PipeAnomalyScore
    \/ PipeDetect
    \/ PipeFitDetect
    \/ PipeFeatureWiseAnomalyScore
    \/ PipeAnalyze
    \/ PipeFitAnalyze
    \/ PipePlotAnomalyScore

SpecPipe == InitPipe /\ [][NextPipe]_vars

(***************************************************************************)
(* C1.  A failed fit leaves the fitted state (model, threshold_,           *)
(* normalizer) exactly as it was before the call.                          *)
(***************************************************************************)
C1_FailedFitKeepsState ==
    [][(last'.op \in FitOps /\ last'.outcome # "ok")
          => Fitted(det') = Fitted(det)]_vars

(***************************************************************************)
(* C2.  A fit whose contamination / fpr lies outside [0, 0.5] fails with   *)
(* an invalid-parameter error, whatever X is, and before the model is      *)
(* fitted.                                                                 *)
(***************************************************************************)
C2_BadParameterRejectedFirst ==
    [][(last'.op \in FitOps /\ ~CheckParams(det))
          => (last'.outcome = "InvalidParameter" /\ det' = det)]_vars

(***************************************************************************)
(* C3.  As long as no fit has completed successfully, every anomaly_score  *)
(* and predict call fails with a not-fitted error.                         *)
(***************************************************************************)
C3_UnfitScoringNotFitted ==
    (last.op \in ScoringOps /\ nfit = 0) => last.outcome = "NotFittedError"

(***************************************************************************)
(* C4.  After fit(X), the number of training samples that predict(X)       *)
(* labels -1 at the default threshold_ is within one sample of c * n.      *)
(***************************************************************************)
\* A fit of a BaseOutlierDetector (the class that has predict) succeeded.
TrainedCase ==
    /\ det.cls = "BaseOutlierDetector"
    /\ last.op \in FitOps
    /\ last.outcome = "ok"

\* predict(X) on the training matrix: returned by fit_predict, or what
\* predict returns right after fit.
TrainLabels ==
    IF last.op = "fit_predict" THEN last.value.labels
    ELSE BasePredict(det, last.X, Unset).value.labels

Flagged == Cardinality({i \in 1..Len(TrainLabels) : TrainLabels[i] = 0 - 1})

\* |Flagged - c * n| <= 1, times Den
WithinOneSample ==
    Abs(Flagged * Den - det.contamination * Len(last.X)) <= Den

\* The training score at sorted rank floor((n - 1)(1 - c)) equals the score at
\* the next rank.
RankTied ==
    LET s == det.anomaly_score_.v
        lo == ((Len(s) - 1) * (Den - det.contamination)) \div Den
    IN lo < Len(s) - 1 /\ OrderStat(s, lo) = OrderStat(s, lo + 1)

\* C4 as claimed: within one sample, ties or not.
C4_WithinOneSampleAlways == TrainedCase => WithinOneSample

\* C4 as amended: never more than one sample above c * n, and within one
\* sample of c * n when the score at the percentile rank is not tied with
\* the next one.
C4_WithinOneSampleUntied ==
    TrainedCase =>
        /\ Flagged * Den <= det.contamination * Len(last.X) + Den
        /\ ~RankTied => WithinOneSample

C4_Witness ==
    /\ TrainedCase
    /\ last.op = "fit_predict"
    /\ ~RankTied
    /\ Flagged >= 1
    /\ Len(last.X) = MaxN

(***************************************************************************)
(* C5.  predict labels a row +1 exactly when its score is <= the           *)
(* threshold (the caller's, else threshold_) and -1 exactly when it is >.  *)
(***************************************************************************)
UsedThreshold ==
    IF last.threshold = Unset THEN det.threshold_ ELSE last.threshold

C5_LabelsFollowThreshold ==
    (last.op = "predict" /\ last.outcome = "ok") =>
        LET s == KnnScores(det.neigh, last.X)
        IN \A i \in 1..Len(last.X) :
              /\ last.value.labels[i] = 1 <=> FLe(s[i], UsedThreshold)
              /\ last.value.labels[i] = 0 - 1 <=> FGt(s[i], UsedThreshold)

(***************************************************************************)
(* C6.  anomaly_score and predict leave the detector unchanged, and a      *)
(* predict repeated with the same arguments returns the same labels.       *)
(***************************************************************************)
C6_ScoringKeepsState ==
    [][/\ last'.op \in ScoringOps => det' = det
       /\ (/\ last.op = "predict" /\ last'.op = "predict"
           /\ last'.X = last.X /\ last'.threshold = last.threshold)
          => last' = last]_vars

C6_Witness ==
    /\ last.op = "predict"
    /\ last.outcome = "ok"
    /\ last.threshold # Unset
    /\ det.scaler.set

(***************************************************************************)
(* C7.  After a successful fit(X2) the fitted state is the one a fresh,    *)
(* identically configured detector has after fit(X2) alone.                *)
(***************************************************************************)
FreshFit(d, X) ==
    DetFit(NewDetector(d.cls, d.contamination, d.n_neighbors), X)

C7_RefitEqualsFreshFit ==
    (last.op \in FitOps /\ last.outcome = "ok") =>
        Fitted(det) = Fitted(FreshFit(det, last.X).det)

\* A second successful fit, on a matrix with other scores than a one-row one.
C7_Witness ==
    /\ last.op = "fit"
    /\ last.outcome = "ok"
    /\ nfit = MaxFits
    /\ det.scaler.set
    /\ det.scaler.min # det.scaler.max

(***************************************************************************)
(* C8.  A pipeline method is callable only when the final step has a       *)
(* method of the same name: otherwise the call fails with an attribute     *)
(* error at dispatch, before any transform is applied and with the         *)
(* pipeline unchanged; a method the final step has never fails so.         *)
(***************************************************************************)
C8_DispatchChecksFinalStep ==
    [][plast'.op \in PipelineOps =>
          IF plast'.op \in FinalEstimator(pipe.steps).caps
          THEN plast'.outcome # "AttributeError"
          ELSE /\ plast'.outcome = "AttributeError"
               /\ plast'.applied = 0
               /\ pipe' = pipe]_vars

\* A method the final step lacks was called with a valid matrix on a pipeline
\* whose transforms are fitted and whose first step is a transform.
C8_Witness ==
    /\ plast.op = "detect"
    /\ plast.outcome = "AttributeError"
    /\ CheckArray(plast.X)
    /\ Len(pipe.steps) > 1
    /\ pipe.steps[1].kind = "Shift"
    /\ pipe.steps[1].fitted
    /\ FinalEstimator(pipe.steps).fitted

(***************************************************************************)
(* C9.  anomaly_score, detect, feature_wise_anomaly_score and analyze of a *)
(* pipeline return what the final step's method of that name returns on    *)
(* the matrix given by the transforms of the steps before it, applied in   *)
(* step order with None steps skipped, and fit nothing; with identity and  *)
(* None transforms alone the result is the final step's on X itself, and   *)
(* fit_predict of the pipeline is fit_predict of the final step.           *)
(***************************************************************************)
ChainOps == {"anomaly_score", "detect", "feature_wise_anomaly_score", "analyze"}

\* The matrix after the transforms of steps 1..n, None steps skipped.
ChainMatrixUpTo(steps, X, n) ==
    LET M[i \in 0..n] ==
            IF i = 0 THEN X
            ELSE IF steps[i].kind = "None" THEN M[i - 1]
            ELSE TransformRows(steps[i], M[i - 1])
    IN M[n]

ChainMatrix(steps, X) == ChainMatrixUpTo(steps, X, Len(steps) - 1)

AllIdentityOrNone(steps) ==
    \A i \in 1..(Len(steps) - 1) : steps[i].kind \in {"None", "Identity"}

C9_ScoringAppliesTransformChain ==
    [][LET final == FinalEstimator(pipe.steps)
           op == plast'.op
           X == plast'.X
       IN /\ (op \in ChainOps /\ plast'.outcome = "ok") =>
                /\ pipe' = pipe
                /\ plast'.value =
                      FinalCall(final, op, ChainMatrix(pipe.steps, X)).value
                /\ AllIdentityOrNone(pipe.steps) =>
                      plast'.value = FinalCall(final, op, X).value
          /\ (op = "fit_predict" /\ AllIdentityOrNone(pipe.steps)) =>
                LET d == FinalFitCall(final, op, X)
                IN /\ plast'.outcome = d.outcome
                   /\ plast'.value = d.value
                   /\ FinalEstimator(pipe'.steps) = d.final]_vars

\* A scoring method returned on a pipeline with a None step and a fitted
\* transform that changes the matrix.
C9_Witness ==
    /\ plast.op \in ChainOps
    /\ plast.outcome = "ok"
    /\ plast.value.arg # plast.X
    /\ \E i \in 1..(Len(pipe.steps) - 1) : pipe.steps[i].kind = "None"
    /\ \E i \in 1..(Len(pipe.steps) - 1) :
          pipe.steps[i].kind = "Shift" /\ pipe.steps[i].offset # 0

(***************************************************************************)
(* C10.  The steps of a pipeline keep their order and names, and the       *)
(* methods that do not fit change nothing; a fit of the pipeline refits    *)
(* every transform that is not None (a clone of it when the pipeline       *)
(* caches) on the output of the steps before it.                           *)
(***************************************************************************)
\* C10 as claimed: no call changes a step before the final one, neither the
\* object in it nor its fitted state.
C10_StepsNeverChange ==
    [][ChainSteps(pipe'.steps) = ChainSteps(pipe.steps)]_vars

\* What a successful fit of the pipeline leaves in step i.
RefittedStep(p, q, X, i) ==
    LET s == p.steps[i]
        Xin == ChainMatrixUpTo(q.steps, X, i - 1)
    IN IF s.kind = "None" THEN s
       ELSE [s EXCEPT !.orig = s.orig /\ ~p.memory,
                      !.fitted = (s.kind = "Shift"),
                      !.offset = IF s.kind = "Shift" THEN ColMin(Xin) ELSE 0]

C10_FitRefitsTransforms ==
    [][/\ Len(pipe'.steps) = Len(pipe.steps)
       /\ \A i \in 1..Len(pipe.steps) :
             /\ pipe'.steps[i].name = pipe.steps[i].name
             /\ pipe'.steps[i].kind = pipe.steps[i].kind
       /\ pipe'.memory = pipe.memory
       /\ plast'.op \notin FitPipeOps => pipe' = pipe
       /\ (plast'.op \in FitPipeOps /\ plast'.outcome = "ok") =>
             \A i \in 1..(Len(pipe.steps) - 1) :
                pipe'.steps[i] = RefittedStep(pipe, pipe', plast'.X, i)]_vars

\* A fit of a caching pipeline fitted a clone of a transform with state.
C10_Witness ==
    /\ plast.op = "fit_detect"
    /\ plast.outcome = "ok"
    /\ pipe.memory
    /\ \E i \in 1..(Len(pipe.steps) - 1) :
          /\ pipe.steps[i].kind = "Shift"
          /\ pipe.steps[i].fitted
          /\ pipe.steps[i].offset # 0
          /\ ~pipe.steps[i].orig

(***************************************************************************)
(* C11.  A row whose k-nearest-neighbor radius is 0 scores minus infinity, *)
(* predict at the default threshold_ labels it +1 once a fit has           *)
(* succeeded, and a fit does not fail because its training matrix holds    *)
(* such rows: with valid parameters, a valid X and no more neighbors asked *)
(* than X has rows, fit succeeds.                                          *)
(***************************************************************************)
\* Row i of the last call's matrix lies on k reference points of the index.
ZeroRadius(i) ==
    /\ det.neigh.set
    /\ ~KNeighborsRaises(det.neigh)
    /\ Radius(det.neigh, last.X[i]) = 0

\* Nothing but zero-radius rows can make the last fit call fail.
FitCallValid ==
    /\ last.op \in FitOps
    /\ CheckParams(det)
    /\ CheckArray(last.X)
    /\ det.n_neighbors <= Len(last.X)

C11_ZeroRadiusIsInlier ==
    /\ (last.op = "anomaly_score" /\ last.outcome = "ok" /\ ~last.normalize) =>
          \A i \in 1..Len(last.X) :
             ZeroRadius(i) => last.value.scores[i] = NegInf
    /\ (/\ last.op = "predict" /\ last.outcome = "ok"
        /\ last.threshold = Unset /\ nfit >= 1) =>
          \A i \in 1..Len(last.X) :
             ZeroRadius(i) => last.value.labels[i] = 1
    /\ FitCallValid => last.outcome = "ok"

====
